---- MODULE Spec2Model ----
(***************************************************************************)
(* Model of crawl_and_scrape (src/scraper.py): URL normalisation, scope    *)
(* matching, the breadth-first discovery loop with breadcrumb              *)
(* backtracking, the two-worker extraction phase and the final text        *)
(* de-duplication.                                                         *)
(*                                                                         *)
(* A URL string is a sequence of atomic text chunks.  The first chunk is   *)
(* the origin (scheme://netloc), "/" is the path separator, "#f" is a      *)
(* fragment ("#" followed by fragment text) and every other chunk is a     *)
(* piece of a path segment: the segment ".." is <<".", ".">>, the segment  *)
(* "x.png" is <<"x", ".png">>.  Queries and params are not modelled.       *)
(***************************************************************************)
EXTENDS Integers, Sequences, FiniteSets, TLC

VARIABLES site, max_depth, max_consecutive_backtrack,
          pc, queue, visited_urls, failed_pages, consecutive_backtrack,
          disc_log, last_outcome, branch,
          pending, inflight, finished, data, df,
          crawl_failed, scrape_raised,
          norm,
          scrape_pdfs, page_cache, page_text

vars == <<site, max_depth, max_consecutive_backtrack,
          pc, queue, visited_urls, failed_pages, consecutive_backtrack,
          disc_log, last_outcome, branch,
          pending, inflight, finished, data, df,
          crawl_failed, scrape_raised,
          norm,
          scrape_pdfs, page_cache, page_text>>

crawlVars == <<site, max_depth, max_consecutive_backtrack,
               pc, queue, visited_urls, failed_pages, consecutive_backtrack,
               disc_log, last_outcome, branch,
               pending, inflight, finished, data, df,
               crawl_failed, scrape_raised>>

\* the Streamlit session around a crawl: the "Scrape PDFs" checkbox, the
\* st.cache_resource of get_page_text and its last call
sessionVars == <<scrape_pdfs, page_cache, page_text>>

----------------------------------------------------------------------------
(* Bounds of the model *)

\* max_depth is drawn from 0..MaxDepthBound
MaxDepthBound == 5
\* max_consecutive_backtrack is drawn from 0..MaxBacktrackBound
MaxBacktrackBound == 1
\* longest path-and-fragment text of an input of normalize_url
MaxPathLen == 5

----------------------------------------------------------------------------
(* Strings *)

A == "http://a.test"
B == "http://b.test"
Slash == "/"
FragmentChunk == "#f"
\* an href that urlparse rejects with ValueError (an unclosed IPv6 bracket)
MalformedOrigin == "http://["

IGNORED_SUFFIXES == {".rst", ".png", ".gif", ".jpeg", ".jpg"}

Last(s) == s[Len(s)]
Front(s) == SubSeq(s, 1, Len(s) - 1)

\* index of the first occurrence of chunk c in s, 0 when absent
RECURSIVE FindFrom(_, _, _)
FindFrom(s, c, i) ==
    IF i > Len(s) THEN 0
    ELSE IF s[i] = c THEN i
    ELSE FindFrom(s, c, i + 1)

Find(s, c) == FindFrom(s, c, 1)

\* str.split("/")
RECURSIVE SplitSlash(_)
SplitSlash(s) ==
    LET i == Find(s, Slash) IN
    IF i = 0 THEN <<s>>
    ELSE <<SubSeq(s, 1, i - 1)>> \o SplitSlash(SubSeq(s, i + 1, Len(s)))

\* "/".join(segments)
RECURSIVE JoinSlash(_)
JoinSlash(segments) ==
    IF segments = <<>> THEN <<>>
    ELSE IF Len(segments) = 1 THEN segments[1]
    ELSE segments[1] \o <<Slash>> \o JoinSlash(Tail(segments))

\* str.rstrip("/")
RECURSIVE RStripSlash(_)
RStripSlash(s) ==
    IF s # <<>> /\ Last(s) = Slash THEN RStripSlash(Front(s)) ELSE s

\* str.endswith(suffix) for some suffix of IGNORED_SUFFIXES
EndsWithIgnoredSuffix(s) == s # <<>> /\ Last(s) \in IGNORED_SUFFIXES

\* urllib.parse.urlparse: origin, path and fragment of a URL string
urlparse(url) ==
    LET h == Find(url, FragmentChunk)
        stop == IF h = 0 THEN Len(url) ELSE h - 1
    IN [origin |-> url[1],
        path |-> SubSeq(url, 2, stop),
        fragment |-> h # 0]

\* urllib.parse.urlunparse: a path that does not start with "/" gets one
\* when there is a netloc; an empty path stays empty
urlunparse(origin, path, fragment) ==
    <<origin>>
    \o (IF path # <<>> /\ path[1] # Slash THEN <<Slash>> ELSE <<>>)
    \o path
    \o (IF fragment THEN <<FragmentChunk>> ELSE <<>>)

\* a ".." on an empty stack kept as a segment
RECURSIVE CollapseSegments_KeepsDotDot(_, _)
CollapseSegments_KeepsDotDot(path, normalized_path) ==
    IF path = <<>> THEN normalized_path
    ELSE LET segment == Head(path) IN
         IF segment = <<".">> \/ segment = <<>>
         THEN CollapseSegments_KeepsDotDot(Tail(path), normalized_path)
         ELSE IF segment = <<".", ".">> /\ normalized_path # <<>>
         THEN CollapseSegments_KeepsDotDot(Tail(path), Front(normalized_path))
         ELSE CollapseSegments_KeepsDotDot(Tail(path),
                                           Append(normalized_path, segment))

\* the loop of normalize_url over the path segments
RECURSIVE CollapseSegments(_, _)
CollapseSegments(path, normalized_path) ==
    IF path = <<>> THEN normalized_path
    ELSE LET segment == Head(path) IN
         IF segment = <<".">> \/ segment = <<>>
         THEN CollapseSegments(Tail(path), normalized_path)
         ELSE IF segment = <<".", ".">>
         THEN CollapseSegments(Tail(path),
                               IF normalized_path # <<>>
                               THEN Front(normalized_path)
                               ELSE normalized_path)
         ELSE CollapseSegments(Tail(path), Append(normalized_path, segment))

normalize_url(url) ==
    LET parsed == urlparse(url) IN
    urlunparse(parsed.origin,
               JoinSlash(CollapseSegments(SplitSlash(parsed.path), <<>>)),
               FALSE)

\* parsed_url._replace(fragment="").geturl()
StripFragment(url) ==
    LET parsed == urlparse(url) IN
    urlunparse(parsed.origin, parsed.path, FALSE)

\* the path segments of a URL string, as normalize_url sees them
PathSegments(url) == SplitSlash(urlparse(url).path)

----------------------------------------------------------------------------
(* The sites crawled: what the network serves *)

Page(links, text) == [links |-> links, text |-> text]

\* root "http://a.test/" linking to /about and to http://b.test/x
SiteAbout ==
    [root |-> <<A, "/">>,
     pages |-> (<<A>> :> Page(<< <<A, "/", "about">>, <<B, "/", "x">> >>, "t1"))
            @@ (<<A, "/", "about">> :> Page(<<>>, "t2"))]

\* a single dead-end chain of depth 3
SiteChain ==
    [root |-> <<A>>,
     pages |-> (<<A>> :> Page(<< <<A, "/", "a">> >>, "t1"))
            @@ (<<A, "/", "a">> :> Page(<< <<A, "/", "a", "/", "b">> >>, "t2"))
            @@ (<<A, "/", "a", "/", "b">> :>
                   Page(<< <<A, "/", "a", "/", "b", "/", "x">> >>, "t1"))
            @@ (<<A, "/", "a", "/", "b", "/", "x">> :> Page(<<>>, "t3"))]

\* cycles, links that differ only in dot segments, slashes and fragments,
\* an image
SiteCycle ==
    [root |-> <<A, "/">>,
     pages |-> (<<A>> :> Page(<< <<A, "/", "a", "/", ".", ".", "/", "b", "#f">>,
                                 <<A, "/", "b", "/">>,
                                 <<A, "/", "x", ".png">>,
                                 <<A, "/", "a">> >>, "t1"))
            @@ (<<A, "/", "b">> :> Page(<< <<A, "/">>, <<A, "/", "a", "#f">> >>,
                                        "t2"))
            @@ (<<A, "/", "a">> :> Page(<< <<A, "/", "b">>,
                                           <<A, "/", "a", "/", ".", "/">> >>,
                                        "t2"))]

\* a page with an href that cannot be parsed between two good ones
SiteMalformed ==
    [root |-> <<A>>,
     pages |-> (<<A>> :> Page(<< <<A, "/", "a">>, <<MalformedOrigin>>,
                                 <<A, "/", "b">> >>, "t1"))
            @@ (<<A, "/", "a">> :> Page(<<>>, "t2"))
            @@ (<<A, "/", "b">> :> Page(<<>>, "t1"))]

\* a root below a path prefix: /d/ with links inside and outside /d
SitePrefix ==
    [root |-> <<A, "/", "d", "/">>,
     pages |-> (<<A, "/", "d">> :>
                   Page(<< <<A, "/", "d", "/", "a">>,
                           <<A, "/", "d", "a">>,
                           <<A, "/">>,
                           <<A, "/", "d", "/", "x", ".png">> >>, "t1"))
            @@ (<<A, "/", "d", "/", "a">> :>
                   Page(<< <<A, "/", "d", "/", "a", "/", ".", ".", "/", "b">>,
                           <<B, "/", "d", "/", "a">> >>, "t1"))
            @@ (<<A, "/", "d", "/", "b">> :> Page(<<>>, "t1"))]

\* a tree: one branch is a dead end while the other has a child
SiteTree ==
    [root |-> <<A>>,
     pages |-> (<<A>> :> Page(<< <<A, "/", "a">>, <<A, "/", "b">> >>, "t1"))
            @@ (<<A, "/", "a">> :> Page(<< <<A, "/", "a", "/", "x">> >>, "t2"))
            @@ (<<A, "/", "b">> :> Page(<<>>, "t2"))
            @@ (<<A, "/", "a", "/", "x">> :> Page(<<>>, "t3"))]

\* a root that is a page without links
SiteLeaf ==
    [root |-> <<A>>,
     pages |-> (<<A>> :> Page(<<>>, "t1"))]

\* a root whose own path is not normalized: "http://a.test/d/."
SiteDotRoot ==
    [root |-> <<A, "/", "d", "/", ".">>,
     pages |-> (<<A, "/", "d">> :> Page(<< <<A, "/", "d", "/", "a">> >>, "t1"))]

\* a root that is an image
SiteImage ==
    [root |-> <<A, "/", "x", ".png">>,
     pages |-> (<<A, "/", "x", ".png">> :> Page(<<>>, "t1"))]

Sites == {SiteAbout, SiteChain, SiteCycle, SiteMalformed, SitePrefix,
          SiteTree, SiteLeaf, SiteDotRoot, SiteImage}

\* the document served for a URL: the links of its markup and its text
Served(s, url) ==
    IF url \in DOMAIN s.pages THEN s.pages[url] ELSE Page(<<>>, "t0")

\* urlparse raises ValueError on this href
IsMalformed(href) == href[1] = MalformedOrigin

\* every URL string the crawl of one of the sites meets: the roots, the
\* hrefs that parse, and their canonical forms
SiteHrefs(s) ==
    UNION {{s.pages[u].links[i] : i \in 1..Len(s.pages[u].links)} :
               u \in DOMAIN s.pages}
RawUrls ==
    {u \in {s.root : s \in Sites} \cup UNION {SiteHrefs(s) : s \in Sites} :
        ~IsMalformed(u)}
KnownUrls == RawUrls \cup {StripFragment(normalize_url(u)) : u \in RawUrls}

\* lines 74-80 and 108-112: normalize_url, then urlparse and
\* _replace(fragment="").geturl(); computed once per URL string
Canonical == [u \in KnownUrls |-> StripFragment(normalize_url(u))]

\* requests.get either returns a response (whatever its status) or raises
\* a RequestException
RequestExceptions == {"timeout", "refused"}
Responses == {"ok", "status_not_2xx"}
FetchOutcomes == Responses \cup RequestExceptions

----------------------------------------------------------------------------
(* Scope matching *)

\* a pattern that tests the path and forgets the origin
url_pattern_match_AnyOrigin(root_domain, url) ==
    LET root_path == RStripSlash(urlparse(root_domain).path) IN
    /\ Len(url) >= 1 + Len(root_path)
    /\ SubSeq(url, 2, 1 + Len(root_path)) = root_path
    /\ (Len(url) = 1 + Len(root_path) \/ url[2 + Len(root_path)] = Slash)

\* f"{parsed_root.scheme}://{parsed_root.netloc}" followed by
\* parsed_root.path.rstrip("/")
ScopePrefix(root_domain) ==
    LET parsed_root == urlparse(root_domain) IN
    <<parsed_root.origin>> \o RStripSlash(parsed_root.path)

\* url_pattern.match(url): ^base_url root_path (/|$)
url_pattern_match(root_domain, url) ==
    LET prefix == ScopePrefix(root_domain) IN
    /\ Len(url) >= Len(prefix)
    /\ SubSeq(url, 1, Len(prefix)) = prefix
    /\ (Len(url) = Len(prefix) \/ url[Len(prefix) + 1] = Slash)

----------------------------------------------------------------------------
(* Discovery: the while loop of crawl_and_scrape *)

\* an entry that forgets the path to its URL
Target_SingleCrumb(url, breadcrumb, depth) ==
    [url |-> url, breadcrumb |-> <<url>>, depth |-> depth]

Target(url, breadcrumb, depth) ==
    [url |-> url, breadcrumb |-> breadcrumb, depth |-> depth]

\* the body of "for link in soup.find_all('a', href=True)", hrefs already
\* resolved by urljoin
RECURSIVE NewLinks(_, _, _, _)
NewLinks(root_domain, links, breadcrumb, depth) ==
    IF links = <<>> THEN <<>>
    ELSE LET absolute_url_without_fragment == Canonical[Head(links)]
             rest == NewLinks(root_domain, Tail(links), breadcrumb, depth)
         IN IF /\ url_pattern_match(root_domain, absolute_url_without_fragment)
               /\ ~EndsWithIgnoredSuffix(absolute_url_without_fragment)
            THEN <<Target(absolute_url_without_fragment,
                          Append(breadcrumb, absolute_url_without_fragment),
                          depth + 1)>> \o rest
            ELSE rest

\* the parent inserted without the test against visited_urls
AggressiveBacktrack_NoVisitedTest(breadcrumb, depth, visited) ==
    IF Len(breadcrumb) > 1
    THEN <<Target(Last(Front(breadcrumb)), Front(breadcrumb), depth - 1)>>
    ELSE <<>>

\* the "Aggressive backtracking" while loop: the entry to insert, if any
RECURSIVE AggressiveBacktrack(_, _, _)
AggressiveBacktrack(breadcrumb, depth, visited) ==
    IF Len(breadcrumb) > 1
    THEN LET popped == Front(breadcrumb) IN
         IF Last(popped) \notin visited
         THEN <<Target(Last(popped), popped, depth - 1)>>
         ELSE AggressiveBacktrack(popped, depth - 1, visited)
    ELSE <<>>

\* the current target inserted again: the pop of the breadcrumb forgotten
NormalBacktrack_NoPop(breadcrumb, depth) ==
    IF breadcrumb # <<>>
    THEN <<Target(Last(breadcrumb), breadcrumb, depth - 1)>>
    ELSE <<>>

\* the "Normal backtracking" branch: the entry to insert, if any
NormalBacktrack(breadcrumb, depth) ==
    IF breadcrumb # <<>> /\ Front(breadcrumb) # <<>>
    THEN <<Target(Last(Front(breadcrumb)), Front(breadcrumb), depth - 1)>>
    ELSE <<>>

\* the target at the front of the queue and its canonical URL
Current == Head(queue)
url_without_fragment == Canonical[Current.url]

\* a loop that reads queue[0] and leaves it in the queue
Dequeued_NotPopped == queue

\* the queue after queue.pop(0)
Dequeued == Tail(queue)

\* the depth test off by one
BelowMaxDepth_OffByOne(depth) == depth <= max_depth

\* line 104: "if depth < max_depth"
BelowMaxDepth(depth) == depth < max_depth

\* the suffix looked for at the start of the URL
SkipsSuffix_StartsWith(url) == url[1] \in IGNORED_SUFFIXES

\* the visited test made on the URL as dequeued, not on its canonical form
SkipsScopeOrVisited_Raw(url) ==
    \/ ~url_pattern_match(site.root, url)
    \/ Current.url \in visited_urls

\* the skip tests of the loop
SkipsSuffix(url) == EndsWithIgnoredSuffix(url)
SkipsScopeOrVisited(url) ==
    \/ ~url_pattern_match(site.root, url)
    \/ url \in visited_urls

Idle == <<>>

\* a pool of three workers
Workers_Three == {1, 2, 3}

\* line 166: ThreadPoolExecutor(max_workers=2)
Workers == {1, 2}

\* get_page_text has not been called yet
NoCall == [called |-> FALSE]

scrapeVars == <<pending, inflight, finished, data, df, crawl_failed,
                scrape_raised>>
configVars == <<site, max_depth, max_consecutive_backtrack>>

Init ==
    /\ site \in Sites
    /\ max_depth \in 0..MaxDepthBound
    /\ max_consecutive_backtrack \in 0..MaxBacktrackBound
    /\ pc = "discover"
    /\ queue = <<Target(site.root, <<site.root>>, 0)>>
    /\ visited_urls = {}
    /\ failed_pages = <<>>
    /\ consecutive_backtrack = 0
    /\ disc_log = <<>>
    /\ last_outcome = "none"
    /\ branch = "none"
    /\ crawl_failed = {}
    /\ scrape_raised = {}
    /\ scrape_pdfs = TRUE
    /\ page_cache = <<>>
    /\ page_text = NoCall
    /\ pending = {}
    /\ inflight = [w \in Workers |-> Idle]
    /\ finished = {}
    /\ data = <<>>
    /\ df = <<>>
    /\ norm = <<>>

\* lines 83-84: the dequeued URL ends with an ignored suffix
SkipIgnoredSuffix ==
    /\ pc = "discover"
    /\ queue # <<>>
    /\ SkipsSuffix(url_without_fragment)
    /\ queue' = Dequeued
    /\ last_outcome' = "none"
    /\ branch' = "skip"
    /\ UNCHANGED <<configVars, pc, visited_urls, failed_pages,
                   consecutive_backtrack, disc_log, scrapeVars, norm,
                   sessionVars>>

\* lines 86-90: the dequeued URL is out of scope or already visited
SkipOutOfScopeOrVisited ==
    /\ pc = "discover"
    /\ queue # <<>>
    /\ ~SkipsSuffix(url_without_fragment)
    /\ SkipsScopeOrVisited(url_without_fragment)
    /\ queue' = Dequeued
    /\ last_outcome' = "none"
    /\ branch' = "skip"
    /\ UNCHANGED <<configVars, pc, visited_urls, failed_pages,
                   consecutive_backtrack, disc_log, scrapeVars, norm,
                   sessionVars>>

\* the target passes the skip tests: lines 92-100 up to the GET
Visits(outcome) ==
    /\ pc = "discover"
    /\ queue # <<>>
    /\ ~SkipsSuffix(url_without_fragment)
    /\ ~SkipsScopeOrVisited(url_without_fragment)
    /\ visited_urls' = visited_urls \cup {url_without_fragment}
    /\ disc_log' = Append(disc_log, url_without_fragment)
    /\ last_outcome' = outcome

\* lines 152-154: requests.get raises a RequestException
FetchRaises ==
    \E outcome \in RequestExceptions :
        /\ Visits(outcome)
        /\ branch' = "raises"
        /\ failed_pages' = Append(failed_pages, url_without_fragment)
        /\ queue' = Dequeued
        /\ UNCHANGED <<configVars, pc, consecutive_backtrack, scrapeVars, norm,
                   sessionVars>>

\* line 104 is false: the response is parsed and nothing else happens
FetchAtMaxDepth ==
    \E outcome \in Responses :
        /\ Visits(outcome)
        /\ branch' = "at_max_depth"
        /\ ~BelowMaxDepth(Current.depth)
        /\ queue' = Dequeued
        /\ UNCHANGED <<configVars, pc, failed_pages, consecutive_backtrack,
                       scrapeVars, norm,
                   sessionVars>>

\* the hrefs of the markup of the response
LinksOf(url) == Served(site, url).links
HasMalformed(links) == \E i \in 1..Len(links) : IsMalformed(links[i])
CurrentNewLinks ==
    NewLinks(site.root, LinksOf(url_without_fragment), Current.breadcrumb,
             Current.depth)

\* lines 106-107: urljoin raises ValueError on an href; only
\* requests.RequestException is caught, so crawl_and_scrape is left by the
\* exception
LinkParseError ==
    \E outcome \in Responses :
        /\ Visits(outcome)
        /\ branch' = "parse_error"
        /\ BelowMaxDepth(Current.depth)
        /\ HasMalformed(LinksOf(url_without_fragment))
        /\ queue' = Dequeued
        /\ pc' = "raised"
        /\ UNCHANGED <<configVars, failed_pages, consecutive_backtrack,
                       scrapeVars, norm,
                   sessionVars>>

\* lines 123-125
EnqueueLinks ==
    \E outcome \in Responses :
        /\ Visits(outcome)
        /\ branch' = "enqueue"
        /\ BelowMaxDepth(Current.depth)
        /\ ~HasMalformed(LinksOf(url_without_fragment))
        /\ CurrentNewLinks # <<>>
        /\ queue' = Dequeued \o CurrentNewLinks
        /\ consecutive_backtrack' = 0
        /\ UNCHANGED <<configVars, pc, failed_pages, scrapeVars, norm,
                   sessionVars>>

\* lines 126-141
BacktrackAggressive ==
    \E outcome \in Responses :
        /\ Visits(outcome)
        /\ branch' = "aggressive"
        /\ BelowMaxDepth(Current.depth)
        /\ ~HasMalformed(LinksOf(url_without_fragment))
        /\ CurrentNewLinks = <<>>
        /\ consecutive_backtrack + 1 > max_consecutive_backtrack
        /\ LET inserted == AggressiveBacktrack(Current.breadcrumb,
                                               Current.depth, visited_urls')
           IN /\ queue' = inserted \o Dequeued
              /\ consecutive_backtrack' =
                     IF inserted # <<>> THEN 0 ELSE consecutive_backtrack + 1
        /\ UNCHANGED <<configVars, pc, failed_pages, scrapeVars, norm,
                   sessionVars>>

\* lines 126-129 and 142-150
BacktrackNormal ==
    \E outcome \in Responses :
        /\ Visits(outcome)
        /\ branch' = "normal"
        /\ BelowMaxDepth(Current.depth)
        /\ ~HasMalformed(LinksOf(url_without_fragment))
        /\ CurrentNewLinks = <<>>
        /\ ~(consecutive_backtrack + 1 > max_consecutive_backtrack)
        /\ queue' = NormalBacktrack(Current.breadcrumb, Current.depth)
                        \o Dequeued
        /\ consecutive_backtrack' = consecutive_backtrack + 1
        /\ UNCHANGED <<configVars, pc, failed_pages, scrapeVars, norm,
                   sessionVars>>

DiscoveryStep ==
    \/ SkipIgnoredSuffix
    \/ SkipOutOfScopeOrVisited
    \/ FetchRaises
    \/ FetchAtMaxDepth
    \/ LinkParseError
    \/ EnqueueLinks
    \/ BacktrackAggressive
    \/ BacktrackNormal


----------------------------------------------------------------------------
(* Extraction: scrape_url on a pool of two workers, then de-duplication *)

\* what get_page_text does with a URL: it returns the text or raises
ScrapeOutcomes == {"ok", "raises"}

Row(url, text) == [full_weblink |-> url, main_body_text |-> text]

\* keep=False: every row of a repeated text dropped
DropDuplicates_KeepNone(rows) ==
    LET keep(i) == \A j \in 1..Len(rows) :
                       j # i => rows[j].main_body_text # rows[i].main_body_text
        RECURSIVE Kept(_)
        Kept(i) == IF i > Len(rows) THEN <<>>
                   ELSE (IF keep(i) THEN <<rows[i]>> ELSE <<>>) \o Kept(i + 1)
    IN Kept(1)

\* keep="last"
DropDuplicates_KeepLast(rows) ==
    LET keep(i) == \A j \in (i + 1)..Len(rows) :
                       rows[j].main_body_text # rows[i].main_body_text
        RECURSIVE Kept(_)
        Kept(i) == IF i > Len(rows) THEN <<>>
                   ELSE (IF keep(i) THEN <<rows[i]>> ELSE <<>>) \o Kept(i + 1)
    IN Kept(1)

\* df.drop_duplicates(subset="main_body_text", keep="first")
DropDuplicates(rows) ==
    LET keep(i) == \A j \in 1..(i - 1) :
                       rows[j].main_body_text # rows[i].main_body_text
        RECURSIVE Kept(_)
        Kept(i) == IF i > Len(rows) THEN <<>>
                   ELSE (IF keep(i) THEN <<rows[i]>> ELSE <<>>) \o Kept(i + 1)
    IN Kept(1)

\* the loop left while one target is still queued
LoopExits_Early == Len(queue) <= 1

\* line 70: "while queue" is false
LoopExits == queue = <<>>

\* line 70 is false: the loop is left and every visited URL is submitted
\* (line 167); the pool hands them out in the iteration order of the set
StartScraping ==
    /\ pc = "discover"
    /\ LoopExits
    /\ pc' = "scrape"
    /\ pending' = visited_urls
    /\ last_outcome' = "none"
    /\ branch' = "none"
    /\ crawl_failed' = {failed_pages[i] : i \in 1..Len(failed_pages)}
    /\ UNCHANGED <<configVars, queue, visited_urls, failed_pages,
                   consecutive_backtrack, disc_log, inflight, finished,
                   data, df, scrape_raised, norm,
                   sessionVars>>

\* an idle worker of the pool takes the next submitted URL
WorkerTakes(w) ==
    /\ pc = "scrape"
    /\ inflight[w] = Idle
    /\ \E url \in pending :
           /\ pending' = pending \ {url}
           /\ inflight' = [inflight EXCEPT ![w] = url]
    /\ UNCHANGED <<configVars, pc, queue, visited_urls, failed_pages,
                   consecutive_backtrack, disc_log, last_outcome, branch, crawl_failed, finished,
                   data, df, scrape_raised, norm,
                   sessionVars>>

\* lines 158-160: get_page_text returns and the future holds (url, text)
WorkerReturns(w) ==
    /\ pc = "scrape"
    /\ inflight[w] # Idle
    /\ finished' = finished \cup
           {[url |-> inflight[w], ok |-> TRUE,
             text |-> Served(site, inflight[w]).text]}
    /\ inflight' = [inflight EXCEPT ![w] = Idle]
    /\ UNCHANGED <<configVars, pc, queue, visited_urls, failed_pages,
                   consecutive_backtrack, disc_log, last_outcome, branch, crawl_failed, pending,
                   data, df, scrape_raised, norm,
                   sessionVars>>

\* the append of the failing worker lost
WorkerFails_NoRecord(w) ==
    /\ pc = "scrape"
    /\ inflight[w] # Idle
    /\ scrape_raised' = scrape_raised \cup {inflight[w]}
    /\ finished' = finished \cup
           {[url |-> inflight[w], ok |-> FALSE, text |-> ""]}
    /\ inflight' = [inflight EXCEPT ![w] = Idle]
    /\ UNCHANGED <<configVars, pc, queue, visited_urls, failed_pages,
                   consecutive_backtrack, disc_log, last_outcome, branch,
                   crawl_failed, pending, data, df, norm, sessionVars>>

\* lines 161-164: get_page_text raises and the future holds None
WorkerFails(w) ==
    /\ pc = "scrape"
    /\ inflight[w] # Idle
    /\ failed_pages' = Append(failed_pages, inflight[w])
    /\ scrape_raised' = scrape_raised \cup {inflight[w]}
    /\ finished' = finished \cup
           {[url |-> inflight[w], ok |-> FALSE, text |-> ""]}
    /\ inflight' = [inflight EXCEPT ![w] = Idle]
    /\ UNCHANGED <<configVars, pc, queue, visited_urls,
                   consecutive_backtrack, disc_log, last_outcome, branch, crawl_failed, pending,
                   data, df, norm,
                   sessionVars>>

\* lines 168-171: as_completed yields a finished future
Collects ==
    /\ pc = "scrape"
    /\ \E future \in finished :
           /\ finished' = finished \ {future}
           /\ data' = IF future.ok
                      THEN Append(data, Row(future.url, future.text))
                      ELSE data
    /\ UNCHANGED <<configVars, pc, queue, visited_urls, failed_pages,
                   consecutive_backtrack, disc_log, last_outcome, branch, crawl_failed, pending,
                   inflight, df, scrape_raised, norm,
                   sessionVars>>

\* lines 174-178: every future was yielded; de-duplicate and return
Returns ==
    /\ pc = "scrape"
    /\ pending = {}
    /\ \A w \in Workers : inflight[w] = Idle
    /\ finished = {}
    /\ df' = DropDuplicates(data)
    /\ pc' = "done"
    /\ UNCHANGED <<configVars, queue, visited_urls, failed_pages,
                   consecutive_backtrack, disc_log, last_outcome, branch, crawl_failed, pending,
                   inflight, finished, data, scrape_raised, norm,
                   sessionVars>>

ScrapeStep ==
    \/ \E w \in Workers : WorkerTakes(w)
    \/ \E w \in Workers : WorkerReturns(w)
    \/ \E w \in Workers : WorkerFails(w)
    \/ Collects
    \/ Returns

Next ==
    \/ DiscoveryStep
    \/ StartScraping
    \/ ScrapeStep

Spec == Init /\ [][Next]_vars

\* the loop runs until the queue is empty: an iteration that can change the
\* state is eventually taken
SpecFair == Spec /\ WF_vars(DiscoveryStep)

\* the pool: worker 2 always goes on, taking a submitted URL when it is idle
\* and coming back from get_page_text (requests.get has a timeout); worker 1
\* may stay in its call for as long as it likes
SpecPool ==
    /\ Spec
    /\ WF_vars(WorkerTakes(2))
    /\ WF_vars(WorkerReturns(2) \/ WorkerFails(2))

----------------------------------------------------------------------------
(* normalize_url applied to bounded inputs, once and again *)

PathChunks == {Slash, "a", ".", FragmentChunk}

RECURSIVE TextsUpTo(_)
TextsUpTo(n) ==
    IF n = 0 THEN {<<>>}
    ELSE LET shorter == TextsUpTo(n - 1) IN
         shorter \cup {Append(t, c) : t \in shorter, c \in PathChunks}

\* absolute URLs: the text after the origin is empty or starts a path or a
\* fragment
NormInputs ==
    {<<A>> \o t : t \in {t \in TextsUpTo(MaxPathLen) :
                            t = <<>> \/ t[1] \in {Slash, FragmentChunk}}}

InitNorm ==
    /\ site = SiteLeaf
    /\ max_depth = 0
    /\ max_consecutive_backtrack = 0
    /\ pc = "idle"
    /\ queue = <<>>
    /\ visited_urls = {}
    /\ failed_pages = <<>>
    /\ consecutive_backtrack = 0
    /\ disc_log = <<>>
    /\ last_outcome = "none"
    /\ branch = "none"
    /\ crawl_failed = {}
    /\ scrape_raised = {}
    /\ scrape_pdfs = TRUE
    /\ page_cache = <<>>
    /\ page_text = NoCall
    /\ pending = {}
    /\ inflight = [w \in Workers |-> Idle]
    /\ finished = {}
    /\ data = <<>>
    /\ df = <<>>
    /\ \E u \in NormInputs :
           norm = [stage |-> "input", url |-> u, once |-> <<>>, twice |-> <<>>]

NormalizeOnce ==
    /\ norm.stage = "input"
    /\ norm' = [norm EXCEPT !.stage = "once", !.once = normalize_url(norm.url)]
    /\ UNCHANGED <<crawlVars, sessionVars>>

NormalizeAgain ==
    /\ norm.stage = "once"
    /\ norm' = [norm EXCEPT !.stage = "twice",
                            !.twice = normalize_url(norm.once)]
    /\ UNCHANGED <<crawlVars, sessionVars>>

NextNorm == NormalizeOnce \/ NormalizeAgain

SpecNorm == InitNorm /\ [][NextNorm]_vars

----------------------------------------------------------------------------
(* get_page_text behind st.cache_resource, over the reruns of the script *)

\* line 199
PdfPlaceholder == "PDF content skipped as per user preference."

\* what the network serves for the URLs scraped: two PDF documents and an
\* HTML page
Documents ==
    (<<A, "/", "a">> :> [content_type |-> "application/pdf", text |-> "pdf a"])
    @@ (<<A, "/", "b">> :> [content_type |-> "application/pdf",
                            text |-> "pdf b"])
    @@ (<<A>> :> [content_type |-> "text/html", text |-> "t1"])

\* lines 186-213: the text get_page_text makes of a response
TextOfResponse(url, pdfs) ==
    IF Documents[url].content_type = "application/pdf"
    THEN IF pdfs THEN Documents[url].text ELSE PdfPlaceholder
    ELSE Documents[url].text

InitSession ==
    /\ site = SiteLeaf
    /\ max_depth = 0
    /\ max_consecutive_backtrack = 0
    /\ pc = "idle"
    /\ queue = <<>>
    /\ visited_urls = {}
    /\ failed_pages = <<>>
    /\ consecutive_backtrack = 0
    /\ disc_log = <<>>
    /\ last_outcome = "none"
    /\ branch = "none"
    /\ crawl_failed = {}
    /\ scrape_raised = {}
    /\ pending = {}
    /\ inflight = [w \in Workers |-> Idle]
    /\ finished = {}
    /\ data = <<>>
    /\ df = <<>>
    /\ norm = <<>>
    /\ scrape_pdfs = TRUE
    /\ page_cache = <<>>
    /\ page_text = NoCall

\* line 241: the script is rerun with the checkbox in the other position
TogglesScrapePdfs ==
    /\ scrape_pdfs' = ~scrape_pdfs
    /\ UNCHANGED <<crawlVars, norm, page_cache, page_text>>

\* lines 181-182: the decorator finds a result stored for this url (the
\* only argument, hence the key) and returns it without running the body
CachedGetPageText(url) ==
    /\ url \in DOMAIN page_cache
    /\ page_text' = [called |-> TRUE, url |-> url, scrape_pdfs |-> scrape_pdfs,
                     raised |-> FALSE, text |-> page_cache[url]]
    /\ UNCHANGED <<crawlVars, norm, scrape_pdfs, page_cache>>

\* lines 183-213: the body runs and its result is stored
GetPageTextReturns(url) ==
    /\ url \notin DOMAIN page_cache
    /\ page_text' = [called |-> TRUE, url |-> url, scrape_pdfs |-> scrape_pdfs,
                     raised |-> FALSE,
                     text |-> TextOfResponse(url, scrape_pdfs)]
    /\ page_cache' = (url :> TextOfResponse(url, scrape_pdfs)) @@ page_cache
    /\ UNCHANGED <<crawlVars, norm, scrape_pdfs>>

\* lines 183-184: requests.get or raise_for_status raises; nothing is stored
GetPageTextRaises(url) ==
    /\ url \notin DOMAIN page_cache
    /\ page_text' = [called |-> TRUE, url |-> url, scrape_pdfs |-> scrape_pdfs,
                     raised |-> TRUE, text |-> ""]
    /\ UNCHANGED <<crawlVars, norm, scrape_pdfs, page_cache>>

NextSession ==
    \/ TogglesScrapePdfs
    \/ \E url \in DOMAIN Documents : CachedGetPageText(url)
    \/ \E url \in DOMAIN Documents : GetPageTextReturns(url)
    \/ \E url \in DOMAIN Documents : GetPageTextRaises(url)

SpecSession == InitSession /\ [][NextSession]_vars

----------------------------------------------------------------------------
(* Properties *)

Range(s) == {s[i] : i \in 1..Len(s)}
Count(s, x) == Cardinality({i \in 1..Len(s) : s[i] = x})
NoDuplicates(s) == \A i, j \in 1..Len(s) : i # j => s[i] # s[j]

\* discovery has left the while loop and extraction has not started
DiscoveryOver == pc = "discover" /\ queue = <<>>

\* the step dequeues a target whose canonical URL is already visited
DequeuesVisited ==
    /\ pc = "discover"
    /\ queue # <<>>
    /\ url_without_fragment \in visited_urls

\* C1: during discovery no URL is added to visited_urls twice and the
\* discovery GET is issued at most once per canonical URL (disc_log, the
\* URLs added and fetched in order, has no duplicates and holds exactly
\* visited_urls); a dequeued target whose canonical URL is already visited
\* is dropped from the queue without a fetch.
C1_NoDuplicateVisits ==
    /\ [](NoDuplicates(disc_log) /\ Range(disc_log) = visited_urls)
    /\ [][DequeuesVisited =>
             /\ disc_log' = disc_log
             /\ visited_urls' = visited_urls
             /\ queue' = Tail(queue)]_vars

\* a target re-inserted by a backtrack, or reached through a second link,
\* has just been skipped on a site with cycles
C1_Witness ==
    /\ site = SiteCycle
    /\ pc = "discover"
    /\ last_outcome = "none"
    /\ Len(disc_log) = 3
    /\ queue # <<>>

\* C2: with max_depth >= 0 every target in the queue has depth <= max_depth,
\* and so has every target that is fetched for discovery.
C2_DepthBound ==
    /\ [](\A i \in 1..Len(queue) : queue[i].depth <= max_depth)
    /\ [][disc_log' # disc_log => Current.depth <= max_depth]_vars

\* a child sits in the queue at the maximum depth next to an ancestor that
\* a backtrack re-inserted
C2_Witness ==
    /\ max_depth >= 1
    /\ consecutive_backtrack >= 1
    /\ Len(queue) >= 2
    /\ queue[1].depth = 0
    /\ \E i \in 1..Len(queue) : queue[i].depth = max_depth

\* every href of the site can be parsed
WellFormedSite(s) ==
    \A u \in DOMAIN s.pages : ~HasMalformed(s.pages[u].links)

\* C3: on a site whose hrefs all parse, for every max_depth and
\* max_consecutive_backtrack, the discovery loop eventually finds the queue
\* empty.
C3_DiscoveryTerminates ==
    WellFormedSite(site) => <>(queue = <<>>)

\* the dead-end chain of depth 3 was walked to its end under max_depth = 5
\* and max_consecutive_backtrack = 1
C3_Witness ==
    /\ site = SiteChain
    /\ max_depth = 5
    /\ max_consecutive_backtrack = 1
    /\ DiscoveryOver
    /\ Len(disc_log) = 4
    /\ consecutive_backtrack = 1

\* the first row of rows with the given text
FirstWithText(rows, text) ==
    rows[CHOOSE i \in 1..Len(rows) :
            /\ rows[i].main_body_text = text
            /\ \A j \in 1..(i - 1) : rows[j].main_body_text # text]

\* C4: in the returned frame no two rows have the same text; for every text
\* collected exactly one row is retained, the first one appended to data.
C4_TextDedup ==
    pc = "done" =>
        /\ \A i, j \in 1..Len(df) :
               i # j => df[i].main_body_text # df[j].main_body_text
        /\ \A r \in Range(data) :
               Count(df, FirstWithText(data, r.main_body_text)) = 1
        /\ \A r \in Range(df) :
               r = FirstWithText(data, r.main_body_text)

\* two pages with the same text were collected and one row was dropped
C4_Witness ==
    /\ pc = "done"
    /\ Len(df) < Len(data)
    /\ Len(df) >= 2

\* C5: a fetch that fails for a URL leaves exactly one record of that URL in
\* the failure list that is returned, and the batch goes on: every visited
\* URL has a row in data or a record in failed_pages.
C5_OneFailureRecordPerUrl ==
    pc = "done" =>
        /\ \A u \in Range(failed_pages) : Count(failed_pages, u) = 1
        /\ \A u \in visited_urls :
               \/ u \in Range(failed_pages)
               \/ \E r \in Range(data) : r.full_weblink = u

\* the outcomes of a discovery fetch that are a NetworkError
NetworkErrors == RequestExceptions \cup {"status_not_2xx"}

\* C6: when the discovery fetch of a URL ends in a NetworkError (timeout,
\* refused connection, non-2xx status) the URL is appended to failed_pages,
\* the queue only loses the dequeued target and consecutive_backtrack keeps
\* its value.
C6_NetworkErrorRecorded ==
    [][(disc_log' # disc_log /\ last_outcome' \in NetworkErrors) =>
           /\ failed_pages' = Append(failed_pages, Last(disc_log'))
           /\ queue' = Tail(queue)
           /\ consecutive_backtrack' = consecutive_backtrack]_vars

\* C7: no error is fatal: an href that cannot be parsed is dropped and
\* crawl_and_scrape is never left by an exception.
C7_NoFatalError == pc # "raised"

\* scenario A ran to the end of discovery with every fetch answered
ScenarioA ==
    /\ site = SiteAbout
    /\ max_depth >= 1
    /\ DiscoveryOver
    /\ failed_pages = <<>>
    /\ last_outcome = "ok"

C9_VisitedInScope ==
    LET prefix == <<urlparse(site.root).origin>>
                      \o RStripSlash(urlparse(site.root).path)
    IN /\ \A u \in visited_urls :
              /\ Len(u) >= Len(prefix)
              /\ \A i \in 1..Len(prefix) : u[i] = prefix[i]
              /\ (Len(u) = Len(prefix) \/ u[Len(prefix) + 1] = "/")
              /\ u[Len(u)] \notin {".rst", ".png", ".gif", ".jpeg", ".jpg"}
       /\ \A i \in 1..Len(df) : df[i].full_weblink \in visited_urls

\* the crawl below /d met an image inside the scope and links outside it
C9_Witness ==
    /\ site = SitePrefix
    /\ pc = "done"
    /\ Cardinality(visited_urls) = 3
    /\ Len(df) >= 1

\* C10: normalize_url is idempotent on URLs built from empty, ".", ".." and
\* ordinary segments, and its result has no empty, "." or ".." segment: a
\* ".." on an empty stack is dropped.
C10_NormalizeIdempotent ==
    /\ norm.stage = "twice" => norm.twice = norm.once
    /\ norm.stage \in {"once", "twice"} =>
           \A i \in 2..Len(PathSegments(norm.once)) :
               PathSegments(norm.once)[i] \notin {<<>>, <<".">>, <<".", ".">>}

\* "http://a.test/../a" was normalized twice
C10_Witness ==
    /\ norm.stage = "twice"
    /\ norm.url = <<A, "/", ".", ".", "/", "a">>
    /\ norm.twice = <<A, "/", "a">>

\* C11: when get_page_text is called with scrape_pdfs false for a URL whose
\* response declares application/pdf, the text it returns is the fixed
\* placeholder, whatever was fetched before.
C11_PlaceholderWhenPdfsOff ==
    (/\ page_text.called
     /\ ~page_text.raised
     /\ ~page_text.scrape_pdfs
     /\ Documents[page_text.url].content_type = "application/pdf")
        => page_text.text = PdfPlaceholder

\* the workers that are inside scrape_url
InFlight == {w \in DOMAIN inflight : inflight[w] # Idle}

\* C12: at most 2 extraction fetches are in flight at any moment, and once
\* extraction has started every visited URL is eventually taken by a worker
\* even if the other worker never comes back from its URL.
C12_BoundedPool ==
    /\ [](Cardinality(InFlight) <= 2)
    /\ (pc = "scrape") ~> (pending = {})

\* worker 1 is still inside its first URL while worker 2 has finished the
\* three other URLs
C12_Witness ==
    /\ pc = "scrape"
    /\ Cardinality(visited_urls) = 4
    /\ inflight[1] # Idle
    /\ inflight[2] = Idle
    /\ pending = {}
    /\ Cardinality(finished) = 3

\* C13: no step removes a URL from visited_urls; no extraction fetch is in
\* flight while the queue is non-empty; visited_urls does not change once
\* extraction has started.
C13_GrowsThenExtracts ==
    /\ [][visited_urls \subseteq visited_urls']_vars
    /\ [](InFlight # {} => queue = <<>>)
    /\ [][pc = "scrape" => visited_urls' = visited_urls]_vars

\* an extraction fetch is in flight after a discovery of several URLs
C13_Witness ==
    /\ pc = "scrape"
    /\ InFlight # {}
    /\ Cardinality(visited_urls) >= 3
    /\ Len(disc_log) >= 3

\* the step fetches the dequeued target for discovery
FetchesCurrent ==
    /\ pc = "discover"
    /\ queue # <<>>
    /\ disc_log' # disc_log

\* C14: when a target with depth >= max_depth is processed and its
\* discovery fetch succeeds, its URL is added to visited_urls and nothing
\* else changes: the queue only loses the target, failed_pages and
\* consecutive_backtrack keep their values.
C14_MaxDepthFrame ==
    [][(/\ FetchesCurrent
        /\ Current.depth >= max_depth
        /\ last_outcome' = "ok") =>
           /\ visited_urls' = visited_urls \cup {Last(disc_log')}
           /\ queue' = Tail(queue)
           /\ consecutive_backtrack' = consecutive_backtrack
           /\ failed_pages' = failed_pages
           /\ pc' = pc]_vars

\* a page with links was fetched at the maximum depth after its parent
C14_Witness ==
    /\ site = SiteChain
    /\ max_depth = 1
    /\ branch = "at_max_depth"
    /\ last_outcome = "ok"
    /\ disc_log = << <<A>>, <<A, "/", "a">> >>
    /\ queue = <<>>

\* the step is a dead end below max_depth: the response holds no in-scope
\* link
DeadEnd ==
    /\ FetchesCurrent
    /\ last_outcome' \in Responses
    /\ Current.depth < max_depth
    /\ ~HasMalformed(LinksOf(url_without_fragment))
    /\ CurrentNewLinks = <<>>

\* what a normal backtrack does to the queue: the parent in front, with the
\* breadcrumb shortened by one and the depth decreased by one, or nothing
\* when the target is the root
InsertsParent ==
    LET crumbs == Current.breadcrumb IN
    queue' = (IF Len(crumbs) > 1
              THEN <<[url |-> crumbs[Len(crumbs) - 1],
                      breadcrumb |-> SubSeq(crumbs, 1, Len(crumbs) - 1),
                      depth |-> Current.depth - 1]>>
              ELSE <<>>) \o Tail(queue)

NormalBacktrackStep ==
    DeadEnd /\ consecutive_backtrack + 1 <= max_consecutive_backtrack

\* a normal backtrack has just put an ancestor at the front of the queue
\* (only the first target of the crawl has a breadcrumb of length 1, and the
\* queue is empty after it)
AncestorReinserted ==
    /\ pc = "discover"
    /\ branch = "normal"
    /\ queue # <<>>

\* C15 as claimed: a normal backtrack inserts the parent at the front of the
\* queue (nothing for the root), and the re-inserted ancestor is then
\* re-fetched for discovery.
C15_NormalBacktrack_AsClaimed ==
    /\ [][NormalBacktrackStep => InsertsParent]_vars
    /\ [][AncestorReinserted =>
             disc_log' = Append(disc_log, url_without_fragment)]_vars

\* C15: a normal backtrack inserts the parent at the front of the queue
\* (nothing for the root); the canonical URL of the re-inserted ancestor is
\* already in visited_urls, so the next iteration drops it without a fetch.
C15_NormalBacktrack ==
    /\ [][NormalBacktrackStep => InsertsParent]_vars
    /\ [][AncestorReinserted =>
             /\ url_without_fragment \in visited_urls
             /\ disc_log' = disc_log
             /\ queue' = Tail(queue)]_vars

\* the parent was re-inserted in front of a queued sibling branch
C15_Witness ==
    /\ AncestorReinserted
    /\ Len(queue) >= 2
    /\ queue[1].depth = 0
    /\ consecutive_backtrack = 1

AggressiveBacktrackStep ==
    DeadEnd /\ consecutive_backtrack + 1 > max_consecutive_backtrack

\* the positions of the proper ancestors on the breadcrumb of the current
\* target that are not in visited_urls once the target itself was added
UnvisitedAncestors ==
    {k \in 1..(Len(Current.breadcrumb) - 1) :
        Current.breadcrumb[k] \notin visited_urls'}

Max(S) == CHOOSE m \in S : \A k \in S : k <= m

\* C16: an aggressive backtrack pops the breadcrumb down to the nearest
\* ancestor that is not in visited_urls, inserts that one entry at the front
\* of the queue and resets consecutive_backtrack to 0; when every ancestor
\* down to the root is visited, nothing is inserted and the counter keeps its
\* incremented value.
C16_AggressiveBacktrack ==
    [][AggressiveBacktrackStep =>
          LET crumbs == Current.breadcrumb IN
          IF UnvisitedAncestors = {}
          THEN /\ queue' = Tail(queue)
               /\ consecutive_backtrack' = consecutive_backtrack + 1
          ELSE LET k == Max(UnvisitedAncestors) IN
               /\ queue' = <<[url |-> crumbs[k],
                              breadcrumb |-> SubSeq(crumbs, 1, k),
                              depth |-> Current.depth - (Len(crumbs) - k)]>>
                               \o Tail(queue)
               /\ crumbs[k] \notin visited_urls'
               /\ consecutive_backtrack' = 0]_vars

\* an aggressive backtrack has inserted an unvisited ancestor and reset the
\* counter
C16_Witness ==
    /\ pc = "discover"
    /\ branch = "aggressive"
    /\ consecutive_backtrack = 0
    /\ queue # <<>>
    /\ Head(queue).url \notin visited_urls

\* an aggressive backtrack has found every ancestor visited
C16_WitnessNoInsertion ==
    /\ pc = "discover"
    /\ branch = "aggressive"
    /\ consecutive_backtrack = 1
    /\ Len(disc_log) >= 3

\* C17: every entry of the queue has depth = Len(breadcrumb) - 1, a
\* non-empty breadcrumb that starts at the root and ends at the entry's url,
\* and a breadcrumb of at most max_depth + 1 URLs.
C17_QueueEntries ==
    \A i \in 1..Len(queue) :
        LET entry == queue[i] IN
        /\ entry.breadcrumb # <<>>
        /\ entry.depth = Len(entry.breadcrumb) - 1
        /\ Last(entry.breadcrumb) = entry.url
        /\ entry.breadcrumb[1] = site.root
        /\ Len(entry.breadcrumb) <= max_depth + 1

\* the queue holds a child enqueued at the deepest level behind an ancestor
\* that a backtrack re-inserted
C17_Witness ==
    /\ branch \in {"normal", "aggressive"}
    /\ Len(queue) >= 2
    /\ Len(queue[1].breadcrumb) < Len(queue[2].breadcrumb)
    /\ Len(queue[2].breadcrumb) = max_depth + 1

\* the while loop of crawl_and_scrape with the "else" branch of
\* "if new_links" removed, run to the end from a queue: the URLs in the order
\* of their first visit and the failure list, for the fetches of "raising"
\* raising a RequestException
RECURSIVE PlainLoop(_, _, _, _)
PlainLoop(todo, order, failures, raising) ==
    IF todo = <<>> THEN [order |-> order, failed_pages |-> failures]
    ELSE LET current == Head(todo)
             url == Canonical[current.url]
         IN IF \/ EndsWithIgnoredSuffix(url)
               \/ ~url_pattern_match(site.root, url)
               \/ url \in Range(order)
            THEN PlainLoop(Tail(todo), order, failures, raising)
            ELSE IF url \in raising
            THEN PlainLoop(Tail(todo), Append(order, url),
                           Append(failures, url), raising)
            ELSE IF current.depth < max_depth
            THEN PlainLoop(Tail(todo) \o NewLinks(site.root, LinksOf(url),
                                                  current.breadcrumb,
                                                  current.depth),
                           Append(order, url), failures, raising)
            ELSE PlainLoop(Tail(todo), Append(order, url), failures, raising)

PlainCrawl ==
    PlainLoop(<<Target(site.root, <<site.root>>, 0)>>, <<>>, <<>>,
              Range(failed_pages))

\* C18: when discovery ends, the URLs visited, the order of their first
\* visit and the discovery failure list are those of the same breadth-first
\* loop without the backtracking branch, run with the same fetch outcomes.
C18_BacktrackingChangesNothing ==
    DiscoveryOver =>
        /\ disc_log = PlainCrawl.order
        /\ visited_urls = Range(PlainCrawl.order)
        /\ failed_pages = PlainCrawl.failed_pages

\* discovery has ended after an aggressive backtrack re-inserted the root,
\* which was then skipped
C18_Witness ==
    /\ DiscoveryOver
    /\ site = SiteAbout
    /\ max_consecutive_backtrack = 0
    /\ consecutive_backtrack = 0
    /\ branch = "skip"
    /\ Len(disc_log) = 2

\* discovery has ended after backtracks in a site with a failed fetch
C18_WitnessFailure ==
    /\ DiscoveryOver
    /\ site = SiteTree
    /\ Len(disc_log) >= 4
    /\ failed_pages # <<>>
    /\ consecutive_backtrack >= 1

\* the records appended to failed_pages by the workers: discovery appended
\* one record for each URL of crawl_failed before extraction began
ExtractionFailures ==
    SubSeq(failed_pages, Cardinality(crawl_failed) + 1, Len(failed_pages))

CollectedUrls == [i \in 1..Len(data) |-> data[i].full_weblink]

\* C19: when extraction has ended, every URL of visited_urls has exactly one
\* of a collected result in data or a failure record appended by its worker,
\* and nothing else was collected or recorded: Len(data) plus the number of
\* extraction failure records is the number of visited URLs.
C19_NothingLostOrDuplicated ==
    pc = "done" =>
        /\ \A url \in visited_urls :
               Count(CollectedUrls, url) + Count(ExtractionFailures, url) = 1
        /\ Range(CollectedUrls) \cup Range(ExtractionFailures) = visited_urls
        /\ Len(data) + Len(ExtractionFailures) = Cardinality(visited_urls)

\* extraction has ended with results collected and several failures
\* recorded by the workers, after a discovery that recorded a failure too
C19_Witness ==
    /\ pc = "done"
    /\ Cardinality(visited_urls) >= 3
    /\ Len(ExtractionFailures) >= 2
    /\ Len(data) >= 1
    /\ crawl_failed # {}

\* both workers are running scrape_url while a failure record and a finished
\* future exist
C19_WitnessConcurrent ==
    /\ pc = "scrape"
    /\ \A w \in Workers : inflight[w] # Idle
    /\ scrape_raised # {}
    /\ data # <<>>

\* the position of the first visit of a URL
FirstVisit(url) == CHOOSE i \in 1..Len(disc_log) : disc_log[i] = url

\* C20: the distinct texts of the returned frame and the URLs of the
\* returned failure list are determined by the site, the visited set and the
\* URLs whose fetch failed, whatever the order in which the workers
\* completed: the texts are those of the visited URLs whose extraction did
\* not raise, the failure URLs are those that raised in discovery or in
\* extraction.
C20_CompletionOrderIndependent ==
    pc = "done" =>
        /\ {df[i].main_body_text : i \in 1..Len(df)} =
               {Served(site, url).text : url \in visited_urls \ scrape_raised}
        /\ Range(failed_pages) = crawl_failed \cup scrape_raised

\* the completion order shows in the result: the text shared by two
\* extracted pages is represented by the one visited later, and the failure
\* records are not in the order of the visits
C20_Witness ==
    /\ pc = "done"
    /\ \E i \in 1..Len(df) : \E url \in visited_urls \ scrape_raised :
           /\ Served(site, url).text = df[i].main_body_text
           /\ FirstVisit(url) < FirstVisit(df[i].full_weblink)
    /\ \E i, j \in 1..Len(ExtractionFailures) :
           /\ i < j
           /\ FirstVisit(ExtractionFailures[j])
                  < FirstVisit(ExtractionFailures[i])

TypeOK ==
    /\ pc \in {"discover", "scrape", "done", "raised", "idle"}
    /\ consecutive_backtrack \in Nat

====
